---- MODULE Spec2Model ----
(***************************************************************************)
(* Model of the RedeemFrontend bulk-close workflow: the chunkArray helper, *)
(* the module-level account scanner cache of src/api/accounts.ts and the   *)
(* closeAllAccounts / scanTokenAccounts handlers of SimpleMode.            *)
(*                                                                         *)
(* Every `await` of the source is one step of the model: the request is    *)
(* issued by the step that reaches the await, and the step that resumes    *)
(* after it draws the outcome of the awaited call from the outcomes the     *)
(* wallet, the backend and the RPC node can produce.                       *)
(*                                                                         *)
(* JavaScript `undefined` numbers are written Undefined (-1; every number  *)
(* the program handles is non-negative), `null` strings are written Null.  *)
(***************************************************************************)
EXTENDS Integers, Sequences, FiniteSets, TLC

\* ------------------------------------------------------------------ bounds
MaxLen == 4          \* longest list handed to chunkArray in SpecChunk
MaxB == 3            \* largest batch size handed to chunkArray in SpecChunk
MaxElem == 2         \* list elements of SpecChunk are drawn from 1..MaxElem
MaxBatches == 2      \* a bulk close has at most this many batches
MaxFetch == 3        \* scanner calls made in SpecScanner
MaxAccounts == 2     \* SpecScanner: the backend reports up to this many
MaxRuns == 2         \* SpecRerun: closeAllAccounts invocations in a session
MaxConnects == 3     \* SpecWallets: publicKey changes in a session

\* ------------------------------------------------------- program constants
MinBalance == 1000000          \* 0.001 SOL in lamports (balance < 0.001)

Undefined == -1
Null == "null"
EmptySig == 0                  \* let signature = ""; real signatures are > 0

Min(a, b) == IF a < b THEN a ELSE b

\* ------------------------------------------------------------- chunkArray
\* arr.slice(start, end) with 0-based, end-exclusive indices
slice(arr, start, end) == SubSeq(arr, start + 1, Min(end, Len(arr)))

RECURSIVE chunkLoop(_, _, _, _)
chunkLoop(arr, chunkSize, i, result) ==
  IF i < Len(arr)
    THEN chunkLoop(arr, chunkSize, i + chunkSize,
                   Append(result, slice(arr, i, i + chunkSize)))
    ELSE result

chunkArray_skip(arr, chunkSize) == chunkLoop(arr, chunkSize, chunkSize, <<>>)

chunkArray(arr, chunkSize) == chunkLoop(arr, chunkSize, 0, <<>>)

RECURSIVE Flatten(_)
Flatten(ss) == IF ss = <<>> THEN <<>> ELSE Head(ss) \o Flatten(Tail(ss))

CeilDiv(n, b) == (n + b - 1) \div b

\* ------------------------------------------------------------------ state
VARIABLES
  chunkIn, chunkB, chunkOut, chunkDone,   \* SpecChunk: one chunkArray call
  variant,                 \* which closeAllAccounts of the repository runs
  api,                     \* which src/api/accounts.ts helpers are loaded
  publicKey, signAllTransactions,         \* useWallet()
  connects,                \* wallet connections made so far
  cookie,                  \* document cookie "referral_code"
  chain,                   \* zero-balance accounts the backend reports
  accountsWithoutBalance,  \* module-level cache of src/api/accounts.ts
  tokenAccounts, accountKeys, walletBalance, isLoading, error, statusMessage,
  pc,                      \* position of the running closeAllAccounts
  keys,                    \* accountKeys captured by the handler's closure
  runPublicKey,            \* publicKey captured by the handler's closure
  chunkedKeys, allCloseTxs, referralCode, signedTxs, i, signature,
  totalSolReceived, totalSolShared,
  scans,                   \* scanner calls / scans whose await is pending
  runs, fetchCount,        \* counters that bound the behaviours
  log, signArgs,           \* history of the current closeAllAccounts run
  claimRecords, referralReports,          \* Claim Recorder calls that resolved
  lastCall,                \* history: the last completed scanner call
  signTransaction,         \* useWallet(): does the adapter sign one transaction
  held,                    \* token-holding accounts the backend reports
  accountsWithBalance,     \* module-level cache of src/api/accounts.ts
  warningAccepted, loading, advTokenAccounts, advError, advStatusMessage,
  selectedAccounts,        \* React state of AdvancedMode
  advScans,                \* AdvancedMode scans whose await is pending
  timers,                  \* setTimeout callbacks not yet run, oldest first
  accountView,             \* React state of the Account components
  closes                   \* single-account closes, running and ended

chunkVars == <<chunkIn, chunkB, chunkOut, chunkDone>>
envVars == <<variant, api, cookie>>
walletVars == <<publicKey, signAllTransactions, connects>>
uiVars == <<tokenAccounts, accountKeys, walletBalance, isLoading, error,
            statusMessage>>
runVars == <<pc, keys, runPublicKey, chunkedKeys, allCloseTxs, referralCode, signedTxs, i,
             signature, totalSolReceived, totalSolShared>>
histVars == <<runs, log, signArgs, claimRecords, referralReports>>
scanVars == <<accountsWithoutBalance, scans, fetchCount, lastCall, chain>>
singleVars == <<signTransaction, held, accountsWithBalance, warningAccepted,
                loading, advTokenAccounts, advError, advStatusMessage,
                selectedAccounts, advScans, timers, accountView, closes>>
vars == <<chunkVars, envVars, walletVars, uiVars, runVars, histVars, scanVars,
          singleVars>>

\* ------------------------------------------------ values of the variables
Variants == {"chunk3", "chunk70", "chunk20", "chunk70b"}
ApiVersions == {"checked", "unchecked"}

DefinedList(list) == [def |-> TRUE, list |-> list]
UndefinedList == [def |-> FALSE, list |-> <<>>]
NoMessage == [shown |-> FALSE, reclaimed |-> 0, shared |-> 0]
NoCall == [status |-> "none", forceReload |-> FALSE, issued |-> FALSE,
           kind |-> "none",
           before |-> DefinedList(<<>>), returned |-> DefinedList(<<>>),
           after |-> DefinedList(<<>>)]

ErrNotConnected == "Wallet not connected"
ErrNoSignAll ==
  "Your wallet does not support bulk signing (signAllTransactions)."
ErrInsufficient == "Insufficient SOL to cover transaction fees."
ErrNoAccounts == "No token accounts found to close."
ErrBulk == "Error closing accounts in bulk: "
ErrFetch == "Failed to fetch token accounts."

Range(s) == {s[k] : k \in 1..Len(s)}
Iota(n) == [k \in 1..n |-> k]

\* ---------------------------------------------------- Account Scanner cache
\* getAccountsWithoutBalanceFromAddress up to its first await: "throw" when
\* reading .length of an undefined cache, "hit" when the cache is returned,
\* "fetch" when getData is called.
getAccountsDecision_noCache(cache, forceReload) ==
  IF ~cache.def THEN "throw" ELSE "fetch"

getAccountsDecision(cache, forceReload) ==
  IF ~cache.def THEN "throw"
  ELSE IF Len(cache.list) > 0 /\ ~forceReload THEN "hit" ELSE "fetch"

\* the responses the backend can give to a GET
LookupKinds == {"ok", "noAccounts", "httpError", "netError"}

\* getData: does the call throw for this response?
getDataThrows(apiV, kind) ==
  \/ kind = "netError"
  \/ apiV = "checked" /\ kind = "httpError"

\* result.accounts of a response that getData returned
resultAccounts(kind, list) ==
  IF kind = "ok" THEN DefinedList(list) ELSE UndefinedList

\* accountsWithoutBalance after the lines that follow the await
cacheAfterLookup(apiV, cache, kind, list) ==
  IF getDataThrows(apiV, kind) THEN cache ELSE resultAccounts(kind, list)

callThrew(forceReload, cache) ==
  [status |-> "threw", forceReload |-> forceReload, issued |-> FALSE,
   kind |-> "none", before |-> cache, returned |-> UndefinedList, after |-> cache]
callHit(forceReload, cache) ==
  [status |-> "returned", forceReload |-> forceReload, issued |-> FALSE,
   kind |-> "none", before |-> cache, returned |-> cache, after |-> cache]
callFetched(apiV, s, cache, kind, list) ==
  IF getDataThrows(apiV, kind)
    THEN [status |-> "threw", forceReload |-> s.forceReload, issued |-> TRUE,
          kind |-> kind, before |-> s.before, returned |-> UndefinedList, after |-> cache]
    ELSE [status |-> "returned", forceReload |-> s.forceReload,
          issued |-> TRUE, kind |-> kind, before |-> s.before,
          returned |-> resultAccounts(kind, list),
          after |-> cacheAfterLookup(apiV, cache, kind, list)]

RemoveAt(s, k) == SubSeq(s, 1, k - 1) \o SubSeq(s, k + 1, Len(s))

\* the wallets useWallet() can report
Wallets == {"A", "B"}

\* The backend's answer to { wallet_address: userPublicKey.toBase58() }:
\* `chain` is what it reports for wallet A; a token account has one owner,
\* so what it reports for another wallet shares no account with it.
accountsOnChain(w) ==
  IF w = "A" THEN chain ELSE [k \in 1..Len(chain) |-> 100 + chain[k]]

\* ------------------------------------------------- scanTokenAccounts (UI)
\* scanTokenAccounts if it emptied the lists before looking the accounts up
BeginScan_clearing(pk, forceReload) ==
  LET cache == accountsWithoutBalance
      d == getAccountsDecision(cache, forceReload)
  IN IF pk = Null
       THEN /\ error' = ErrNotConnected
            /\ UNCHANGED <<tokenAccounts, accountKeys, scans, lastCall>>
       ELSE /\ error' = IF d = "throw" THEN ErrFetch ELSE Null
            /\ tokenAccounts' = IF d = "hit" THEN cache.list ELSE <<>>
            /\ accountKeys' = tokenAccounts'
            /\ lastCall' = CASE d = "throw" -> callThrew(forceReload, cache)
                              [] d = "hit" -> callHit(forceReload, cache)
                              [] OTHER -> lastCall
            /\ scans' = IF d = "throw" THEN scans
                        ELSE Append(scans,
                               [pc |-> IF d = "hit" THEN "balance" ELSE "lookup",
                                forceReload |-> forceReload, before |-> cache,
                                wallet |-> pk])

\* scanTokenAccounts if the cache were dropped when the wallet is not the
\* one the page showed until now
BeginScan_keyed(pk, forceReload) ==
  LET cache == accountsWithoutBalance
      d == getAccountsDecision(cache, forceReload \/ pk # publicKey)
  IN IF pk = Null
       THEN /\ error' = ErrNotConnected
            /\ UNCHANGED <<tokenAccounts, accountKeys, scans, lastCall>>
       ELSE /\ error' = IF d = "throw" THEN ErrFetch ELSE Null
            /\ tokenAccounts' = IF d = "hit" THEN cache.list ELSE tokenAccounts
            /\ accountKeys' = IF d = "hit" THEN cache.list ELSE accountKeys
            /\ lastCall' = CASE d = "throw" -> callThrew(forceReload, cache)
                              [] d = "hit" -> callHit(forceReload, cache)
                              [] OTHER -> lastCall
            /\ scans' = IF d = "throw" THEN scans
                        ELSE Append(scans,
                               [pc |-> IF d = "hit" THEN "balance" ELSE "lookup",
                                forceReload |-> forceReload, before |-> cache,
                                wallet |-> pk])

\* The synchronous part of scanTokenAccounts(forceReload), run by whoever
\* calls it: the publicKey guard, setError(null) and the scanner call up to
\* its first await.  A cache hit resolves without a request, so the lines
\* after the first await (setTokenAccounts, setAccountKeys, balance fetch)
\* run in the same task.
BeginScan(pk, forceReload) ==
  LET cache == accountsWithoutBalance
      d == getAccountsDecision(cache, forceReload)
  IN IF pk = Null
       THEN /\ error' = ErrNotConnected
            /\ UNCHANGED <<tokenAccounts, accountKeys, scans, lastCall>>
       ELSE CASE d = "throw" ->
                   /\ error' = ErrFetch
                   /\ lastCall' = callThrew(forceReload, cache)
                   /\ UNCHANGED <<tokenAccounts, accountKeys, scans>>
              [] d = "hit" ->
                   /\ error' = Null
                   /\ lastCall' = callHit(forceReload, cache)
                   /\ tokenAccounts' = cache.list
                   /\ accountKeys' = cache.list
                   /\ scans' = Append(scans, [pc |-> "balance",
                                 forceReload |-> forceReload, before |-> cache,
                                 wallet |-> pk])
              [] d = "fetch" ->
                   /\ error' = Null
                   /\ scans' = Append(scans, [pc |-> "lookup",
                                 forceReload |-> forceReload, before |-> cache,
                                 wallet |-> pk])
                   /\ UNCHANGED <<tokenAccounts, accountKeys, lastCall>>

\* useEffect(() => { if (publicKey) scanTokenAccounts(); }, [publicKey, ...])
\* Spec follows the page through one wallet session.
Connect ==
  /\ publicKey = Null /\ connects = 0
  /\ connects' = connects + 1
  /\ publicKey' = "A"
  /\ signAllTransactions' \in BOOLEAN
  /\ BeginScan("A", FALSE)
  /\ UNCHANGED <<singleVars, chunkVars, envVars, walletBalance, isLoading, statusMessage,
                 runVars, histVars, accountsWithoutBalance, fetchCount, chain>>

\* the wallet disconnects: useWallet() yields no publicKey and no
\* signAllTransactions; the effect does not scan and the lists stay
Disconnect ==
  /\ publicKey # Null
  /\ publicKey' = Null
  /\ signAllTransactions' = FALSE
  /\ UNCHANGED <<singleVars, chunkVars, envVars, connects, uiVars, runVars, histVars,
                 scanVars>>

\* the catch block of scanTokenAccounts if it started the lookup again
scanCatch_retry(k) ==
  /\ error' = ErrFetch
  /\ scans' = scans
  /\ UNCHANGED <<tokenAccounts, accountKeys>>

\* catch (err) { setError("Failed to fetch token accounts."); } of the scan
\* whose lookup is pending at scans[k]: the scan ends there
scanCatch(k) ==
  /\ error' = ErrFetch
  /\ scans' = RemoveAt(scans, k)
  /\ UNCHANGED <<tokenAccounts, accountKeys>>

\* the account lookup of a pending scan returns or throws
ScanLookupResponse ==
  \E k \in 1..Len(scans) : \E kind \in LookupKinds :
    LET list == accountsOnChain(scans[k].wallet) IN
    /\ scans[k].pc = "lookup"
    /\ accountsWithoutBalance' =
         cacheAfterLookup(api, accountsWithoutBalance, kind, list)
    /\ lastCall' = callFetched(api, scans[k], accountsWithoutBalance, kind, list)
    /\ IF getDataThrows(api, kind) \/ ~resultAccounts(kind, list).def
         THEN \* getData threw, or accounts.map threw on undefined
              scanCatch(k)
         ELSE /\ tokenAccounts' = list
              /\ accountKeys' = list
              /\ scans' = [scans EXCEPT ![k].pc = "balance"]
              /\ UNCHANGED error
    /\ UNCHANGED <<singleVars, chunkVars, envVars, walletVars, walletBalance, isLoading,
                   statusMessage, runVars, histVars, fetchCount, chain>>

\* responses to GET /get-wallet-balance: the fetch or the JSON parse throws,
\* or a body arrives that carries a balance or none
BalanceValues == {MinBalance - 1, MinBalance}
BalanceResponses ==
  {[ok |-> FALSE, balance |-> Undefined]} \cup
  {[ok |-> TRUE, balance |-> b] : b \in BalanceValues \cup {Undefined}}

ScanBalanceResponse ==
  \E k \in 1..Len(scans) : \E r \in BalanceResponses :
    /\ scans[k].pc = "balance"
    /\ scans' = RemoveAt(scans, k)
    /\ IF r.ok THEN walletBalance' = r.balance /\ UNCHANGED error
               ELSE error' = ErrFetch /\ UNCHANGED walletBalance
    /\ UNCHANGED <<singleVars, chunkVars, envVars, walletVars, tokenAccounts, accountKeys,
                   isLoading, statusMessage, runVars, histVars,
                   accountsWithoutBalance, fetchCount, lastCall, chain>>

\* ------------------------------------------------------ closeAllAccounts
\* what differs between the closeAllAccounts versions of the repository
ChunkSize(v) ==
  CASE v = "chunk3" -> 3 [] v = "chunk20" -> 20 [] OTHER -> 70
\* the catch block that looks the transaction up after a blockheight expiry
HasFallback(v) == v \in {"chunk70", "chunk70b"}
\* sendRawTransaction is inside the try whose catch holds the fallback
SendInsideTry(v) == v = "chunk70"
\* getLatestBlockhash between the build loop and signAllTransactions
RefreshesBlockhash(v) == v = "chunk20"
\* the empty-candidates test: on the chunks or on the keys
NoCandidates(v, ks) ==
  IF v \in {"chunk3", "chunk20"}
    THEN Len(chunkArray(ks, ChunkSize(v))) = 0
    ELSE Len(ks) = 0

\* JavaScript truthiness of an optional number
Truthy(n) == n # Undefined /\ n # 0
\* JavaScript `a < b` where a may be undefined (undefined < b is false)
LessThan(a, b) == a # Undefined /\ a < b

\* `balance < 0.001`
balanceTooLow_inclusive(balance) == LessThan(balance, MinBalance + 1)
balanceTooLow(balance) == LessThan(balance, MinBalance)

\* bodies a successful POST /close-accounts-bunch can carry (lamports):
\* without solShared, and with a share (a share of 0 takes the same
\* branches as an absent one)
BuildResponses ==
  { [solReceived |-> 2039280, solShared |-> Undefined],
    [solReceived |-> 1500000, solShared |-> 500000] }

SendKinds == {"ok", "error", "errorExpiredText"}
ConfirmKinds == {"ok", "execErr", "expired", "error"}
GetTransactionKinds == {"found", "foundErr", "none", "error"}

Sig(run, b) == run * 100 + b

Ev(ev, b, r) == [ev |-> ev, b |-> b, r |-> r]

closeAllFrame ==
  <<chunkVars, envVars, walletVars, accountsWithoutBalance, fetchCount,
    singleVars>>

\* the run goes on: it reaches its next await
Step(newpc, events) ==
  /\ log' = log \o events
  /\ pc' = newpc
  /\ UNCHANGED <<isLoading, error, tokenAccounts, accountKeys, scans, lastCall>>

\* the finally block without setIsLoading(false)
EndRun_stillLoading(events) ==
  /\ log' = log \o events \o <<Ev("scan", 0, "call")>>
  /\ UNCHANGED isLoading
  /\ pc' = "idle"
  /\ BeginScan(runPublicKey, TRUE)

\* finally { setIsLoading(false); scanTokenAccounts(true); }
EndRun(events) ==
  /\ log' = log \o events \o <<Ev("scan", 0, "call")>>
  /\ isLoading' = FALSE
  /\ pc' = "idle"
  /\ BeginScan(runPublicKey, TRUE)

\* catch (err) { setError("Error closing accounts in bulk: " + ...) } finally
Fail(events) == EndRun(events \o <<Ev("setError", 0, ErrBulk)>>)

\* the checks closeAllAccounts makes before its try block: the error they
\* report, or Null when both pass
preconditionError_noSignCheck(publicKeyNow, signAll) ==
  IF publicKeyNow = Null THEN ErrNotConnected ELSE Null

preconditionError(publicKeyNow, signAll) ==
  IF publicKeyNow = Null THEN ErrNotConnected
  ELSE IF ~signAll THEN ErrNoSignAll
  ELSE Null

\* onClick={closeAllAccounts} disabled={isLoading}, rendered only when
\* tokenAccounts.length > 0; the handler runs up to the balance fetch.
ClickCloseAllUpTo(limit) ==
  /\ pc = "idle" /\ ~isLoading /\ Len(tokenAccounts) > 0
  /\ runs < limit
  /\ runs' = runs + 1
  /\ IF preconditionError(publicKey, signAllTransactions) # Null
       THEN /\ error' = preconditionError(publicKey, signAllTransactions)
            /\ log' = <<Ev("setError", 0, error')>>
            /\ UNCHANGED <<pc, isLoading, keys, runPublicKey, signArgs>>
       ELSE /\ error' = Null
            /\ isLoading' = TRUE
            /\ pc' = "balance"
            /\ keys' = accountKeys
            /\ runPublicKey' = publicKey
            /\ log' = <<Ev("balance", 0, "call")>>
            /\ signArgs' = <<>>
  /\ UNCHANGED <<closeAllFrame, tokenAccounts, accountKeys, walletBalance,
                 statusMessage, chunkedKeys, allCloseTxs, referralCode,
                 signedTxs, i, signature, totalSolReceived, totalSolShared,
                 scans, lastCall, claimRecords, referralReports, chain>>

\* Spec follows the page through one closeAllAccounts invocation.
ClickCloseAll == ClickCloseAllUpTo(1)

\* the balance fetch resolves; balance and candidate checks; chunking; the
\* first build request is issued
BalanceResponse ==
  /\ pc = "balance"
  /\ \E r \in BalanceResponses :
       IF ~r.ok
         THEN /\ Fail(<<Ev("balance", 0, "throw")>>)
              /\ UNCHANGED <<walletBalance, chunkedKeys, referralCode,
                             allCloseTxs>>
         ELSE /\ walletBalance' = r.balance
              /\ IF balanceTooLow(r.balance)
                   THEN /\ EndRun(<<Ev("balance", r.balance, "low"),
                                    Ev("setError", 0, ErrInsufficient)>>)
                        /\ UNCHANGED <<chunkedKeys, referralCode, allCloseTxs>>
                   ELSE IF NoCandidates(variant, keys)
                   THEN /\ EndRun(<<Ev("balance", r.balance, "ok"),
                                    Ev("setError", 0, ErrNoAccounts)>>)
                        /\ UNCHANGED <<chunkedKeys, referralCode, allCloseTxs>>
                   ELSE /\ chunkedKeys' = chunkArray(keys, ChunkSize(variant))
                        /\ referralCode' = cookie
                        /\ allCloseTxs' = <<>>
                        /\ Step("build", <<Ev("balance", r.balance, "ok"),
                                           Ev("build", 1, "call")>>)
  /\ UNCHANGED <<closeAllFrame, statusMessage, keys, runPublicKey, signedTxs, i,
                 signature, totalSolReceived, totalSolShared, runs, signArgs,
                 claimRecords, referralReports, chain>>

\* the transaction deserialized from a build response
BuiltTx(b, chunk) ==
  [batch |-> b, keys |-> chunk, recentBlockhash |-> "built",
   lastValidBlockHeight |-> Undefined, signed |-> FALSE]

Transactions_lastOnly(closeTxs) == <<closeTxs[Len(closeTxs)].transaction>>

Transactions(closeTxs) == [k \in 1..Len(closeTxs) |-> closeTxs[k].transaction]

\* closeAccountBunchTransaction of the next chunk resolves (build loop)
BuildResponse ==
  /\ pc = "build"
  /\ LET b == Len(allCloseTxs) + 1 IN
     \/ \E resp \in BuildResponses :
          LET item == [transaction |-> BuiltTx(b, chunkedKeys[b]),
                       solReceived |-> resp.solReceived,
                       solShared |-> resp.solShared,
                       chunkSize |-> Len(chunkedKeys[b])]
              all == Append(allCloseTxs, item)
          IN /\ allCloseTxs' = all
             /\ IF b < Len(chunkedKeys)
                  THEN /\ Step("build", <<Ev("build", b, "ok"),
                                          Ev("build", b + 1, "call")>>)
                       /\ UNCHANGED signArgs
                  ELSE IF RefreshesBlockhash(variant)
                  THEN /\ Step("blockhash", <<Ev("build", b, "ok"),
                                              Ev("blockhash", 0, "call")>>)
                       /\ UNCHANGED signArgs
                  ELSE /\ Step("sign", <<Ev("build", b, "ok"),
                                         Ev("sign", 0, "call")>>)
                       /\ signArgs' = Append(signArgs, Transactions(all))
     \/ /\ Fail(<<Ev("build", b, "throw")>>)
        /\ UNCHANGED <<allCloseTxs, signArgs>>
  /\ UNCHANGED <<closeAllFrame, walletBalance, statusMessage, keys, runPublicKey,
                 chunkedKeys, referralCode, signedTxs, i, signature,
                 totalSolReceived, totalSolShared, runs, claimRecords,
                 referralReports, chain>>

\* what connection.getLatestBlockhash() can resolve to
LatestBlockhashes ==
  {[blockhash |-> "fresh", lastValidBlockHeight |-> 1],
   [blockhash |-> "fresher", lastValidBlockHeight |-> 2]}

refreshAll_firstOnly(closeTxs, latestBlockhash) ==
  [k \in 1..Len(closeTxs) |->
     IF k > 1 THEN closeTxs[k]
     ELSE [closeTxs[k] EXCEPT
             !.transaction.recentBlockhash = latestBlockhash.blockhash,
             !.transaction.lastValidBlockHeight =
                latestBlockhash.lastValidBlockHeight]]

\* for (const item of allCloseTxs) { item.transaction.recentBlockhash = ...;
\*   item.transaction.lastValidBlockHeight = ...; }
refreshAll(closeTxs, latestBlockhash) ==
  [k \in 1..Len(closeTxs) |->
     [closeTxs[k] EXCEPT
        !.transaction.recentBlockhash = latestBlockhash.blockhash,
        !.transaction.lastValidBlockHeight =
           latestBlockhash.lastValidBlockHeight]]

\* connection.getLatestBlockhash() resolves; every transaction is refreshed
BlockhashResponse ==
  /\ pc = "blockhash"
  /\ \/ \E latestBlockhash \in LatestBlockhashes :
          LET all == refreshAll(allCloseTxs, latestBlockhash)
          IN /\ allCloseTxs' = all
             /\ signArgs' = Append(signArgs, Transactions(all))
             /\ Step("sign", <<Ev("blockhash", 0, "ok"), Ev("sign", 0, "call")>>)
     \/ /\ Fail(<<Ev("blockhash", 0, "throw")>>)
        /\ UNCHANGED <<allCloseTxs, signArgs>>
  /\ UNCHANGED <<closeAllFrame, walletBalance, statusMessage, keys, runPublicKey,
                 chunkedKeys, referralCode, signedTxs, i, signature,
                 totalSolReceived, totalSolShared, runs, claimRecords,
                 referralReports, chain>>

\* signAllTransactions(unsignedTxs) resolves; the send loop starts
SignResponse ==
  /\ pc = "sign"
  /\ \/ /\ signedTxs' = [k \in 1..Len(allCloseTxs) |->
                [allCloseTxs[k].transaction EXCEPT !.signed = TRUE]]
        /\ totalSolReceived' = 0
        /\ totalSolShared' = 0
        /\ i' = 0
        /\ signature' = EmptySig
        /\ Step("send", <<Ev("sign", 0, "ok"), Ev("send", 1, "call")>>)
     \/ /\ Fail(<<Ev("sign", 0, "throw")>>)
        /\ UNCHANGED <<signedTxs, totalSolReceived, totalSolShared, i,
                       signature>>
  /\ UNCHANGED <<closeAllFrame, walletBalance, statusMessage, keys, runPublicKey,
                 chunkedKeys, allCloseTxs, referralCode, runs, signArgs,
                 claimRecords, referralReports, chain>>

\* the accounts of batch b are closed on chain
Closed(ch, b) == SelectSeq(ch, LAMBDA a : a \notin Range(chunkedKeys[b]))

\* message.includes("TransactionExpiredBlockheightExceededError") for the
\* errors a send or a confirmation can end with
includesExpired_any(kind) == kind \in {"expired", "errorExpiredText", "execErr"}
includesExpired(kind) == kind \in {"expired", "errorExpiredText"}

\* does the catch of this version look the transaction up for this error?
fallbackApplies(v, kind) == HasFallback(v) /\ includesExpired(kind)

SendResponse_noConfirm ==
  /\ pc = "send"
  /\ \E r \in SendKinds :
       LET b == i + 1 IN
       IF r = "ok"
         THEN /\ signature' = Sig(runs, b)
              /\ Step("store", <<Ev("send", b, "ok"), Ev("store", b, "call")>>)
         ELSE /\ Fail(<<Ev("send", b, r)>>)
              /\ UNCHANGED signature
  /\ UNCHANGED <<closeAllFrame, walletBalance, statusMessage, keys, runPublicKey,
                 chunkedKeys, allCloseTxs, referralCode, signedTxs, i,
                 totalSolReceived, totalSolShared, runs, signArgs,
                 claimRecords, referralReports, chain>>

\* connection.sendRawTransaction resolves
SendResponse ==
  /\ pc = "send"
  /\ \E r \in SendKinds :
       LET b == i + 1 IN
       IF r = "ok"
         THEN /\ signature' = Sig(runs, b)
              /\ Step("confirm", <<Ev("send", b, "ok"),
                                   Ev("confirm", b, "call")>>)
         ELSE IF SendInsideTry(variant) /\ fallbackApplies(variant, r)
         THEN /\ Step("lookup", <<Ev("send", b, r), Ev("lookup", b, "call")>>)
              /\ UNCHANGED signature
         ELSE /\ Fail(<<Ev("send", b, r)>>)
              /\ UNCHANGED signature
  /\ UNCHANGED <<closeAllFrame, walletBalance, statusMessage, keys, runPublicKey,
                 chunkedKeys, allCloseTxs, referralCode, signedTxs, i,
                 totalSolReceived, totalSolShared, runs, signArgs,
                 claimRecords, referralReports, chain>>

\* connection.confirmTransaction resolves: a result without err, a result
\* with err (the handler throws), or a thrown error
ConfirmResponse ==
  /\ pc = "confirm"
  /\ \E r \in ConfirmKinds :
       LET b == i + 1 IN
       IF r = "ok"
         THEN /\ chain' = Closed(chain, b)
              /\ Step("store", <<Ev("confirm", b, "ok"),
                                 Ev("store", b, "call")>>)
         ELSE IF fallbackApplies(variant, r)
         THEN /\ Step("lookup", <<Ev("confirm", b, r),
                                  Ev("lookup", b, "call")>>)
              /\ UNCHANGED chain
         ELSE /\ Fail(<<Ev("confirm", b, r)>>)
              /\ UNCHANGED chain
  /\ UNCHANGED <<closeAllFrame, walletBalance, statusMessage, keys, runPublicKey,
                 chunkedKeys, allCloseTxs, referralCode, signedTxs, i,
                 signature, totalSolReceived, totalSolShared, runs, signArgs,
                 claimRecords, referralReports>>

\* txInfo && !txInfo.meta?.err
lookupSucceeded_lenient(r) == r \in {"found", "foundErr"}
lookupSucceeded_inverted(r) == r = "foundErr"
lookupSucceeded(r) == r = "found"

\* connection.getTransaction(signature) resolves; no transaction can be
\* found under the empty signature
GetTransactionResponse ==
  /\ pc = "lookup"
  /\ \E r \in (IF signature = EmptySig THEN {"none", "error"}
                                       ELSE GetTransactionKinds) :
       LET b == i + 1 IN
       IF lookupSucceeded(r)
         THEN /\ chain' = Closed(chain, b)
              /\ Step("store", <<Ev("lookup", b, r), Ev("store", b, "call")>>)
         ELSE /\ Fail(<<Ev("lookup", b, r)>>)
              /\ UNCHANGED chain
  /\ UNCHANGED <<closeAllFrame, walletBalance, statusMessage, keys, runPublicKey,
                 chunkedKeys, allCloseTxs, referralCode, signedTxs, i,
                 signature, totalSolReceived, totalSolShared, runs, signArgs,
                 claimRecords, referralReports>>

\* `total += amount`
accumulate_overwrite(total, amount) == amount
accumulate(total, amount) == total + amount

\* n.toFixed(6) of an amount in SOL, on lamports: six decimals of SOL are
\* thousands of lamports, rounded to the nearest, halves upwards
MicroSol == 1000
toFixed6(lamports) == ((lamports + MicroSol \div 2) \div MicroSol) * MicroSol

\* what one batch adds to totalSolShared
sharedIncrement(v, referred, solShared) ==
  IF v \in {"chunk3", "chunk20"}
    THEN (IF Truthy(solShared) THEN solShared ELSE 0)
    ELSE (IF referred THEN solShared ELSE 0)

\* totals; then the next iteration's send, or the success message and finally
TallyAdvance(referred, events) ==
  LET item == allCloseTxs[i + 1]
      received == accumulate(totalSolReceived, item.solReceived)
      shared == accumulate(totalSolShared,
                           sharedIncrement(variant, referred, item.solShared))
  IN /\ totalSolReceived' = received
     /\ totalSolShared' = shared
     /\ IF i + 1 < Len(signedTxs)
          THEN /\ i' = i + 1
               /\ signature' = EmptySig
               /\ Step("send", events \o <<Ev("send", i + 2, "call")>>)
               /\ UNCHANGED statusMessage
          ELSE /\ statusMessage' = [shown |-> TRUE,
                                    reclaimed |-> toFixed6(received),
                                    shared |-> toFixed6(shared)]
               /\ EndRun(events \o <<Ev("success", 0, "shown")>>)
               /\ UNCHANGED <<i, signature>>

\* referralCode && solShared
referralDue(code, solShared) == code # Null /\ Truthy(solShared)

\* the record storeClaimTransaction(wallet, signature, solReceived, chunkSize)
\* is asked to persist for batch b of this run
ClaimRecord_allAccounts(wallet, sig, item, b) ==
  [wallet_address |-> wallet, signature |-> sig,
   sol_received |-> item.solReceived,
   accounts_closed |-> Len(keys), run |-> runs, batch |-> b]

ClaimRecord(wallet, sig, item, b) ==
  [wallet_address |-> wallet, signature |-> sig,
   sol_received |-> item.solReceived,
   accounts_closed |-> item.chunkSize, run |-> runs, batch |-> b]

\* await storeClaimTransaction(wallet, signature, solReceived, chunkSize)
\* resolves, or rejects into the catch of closeAllAccounts
StoreResponse ==
  /\ pc = "store"
  /\ LET b == i + 1
         item == allCloseTxs[b]
     IN \/ /\ claimRecords' = Append(claimRecords,
                ClaimRecord(runPublicKey, signature, item, b))
           /\ IF referralDue(referralCode, item.solShared)
                THEN /\ Step("referral", <<Ev("store", b, "ok"),
                                           Ev("referral", b, "call")>>)
                     /\ UNCHANGED <<totalSolReceived, totalSolShared, i,
                                    signature, statusMessage>>
                ELSE TallyAdvance(FALSE, <<Ev("store", b, "ok")>>)
        \/ /\ Fail(<<Ev("store", b, "throw")>>)
           /\ UNCHANGED <<claimRecords, totalSolReceived, totalSolShared, i,
                          signature, statusMessage>>
  /\ UNCHANGED <<closeAllFrame, walletBalance, keys, runPublicKey, chunkedKeys, allCloseTxs,
                 referralCode, signedTxs, runs, signArgs, referralReports,
                 chain>>

\* await updateAffiliatedWallet(wallet, solShared) resolves or rejects
ReferralResponse ==
  /\ pc = "referral"
  /\ LET b == i + 1
         item == allCloseTxs[b]
     IN \/ /\ referralReports' = Append(referralReports,
                [wallet |-> runPublicKey, sol_shared |-> item.solShared,
                 run |-> runs, batch |-> b])
           /\ TallyAdvance(TRUE, <<Ev("referral", b, "ok")>>)
        \/ /\ Fail(<<Ev("referral", b, "throw")>>)
           /\ UNCHANGED <<referralReports, totalSolReceived, totalSolShared,
                          i, signature, statusMessage>>
  /\ UNCHANGED <<closeAllFrame, walletBalance, keys, runPublicKey, chunkedKeys, allCloseTxs,
                 referralCode, signedTxs, runs, signArgs, claimRecords,
                 chain>>

\* ------------------------------- Account.closeAccount, AdvancedMode
\* what differs between the two single-account close handlers

\* Account.tsx wraps the confirmation in a try/catch that looks the
\* transaction up; AdvancedMode.tsx confirms with no catch of its own
SingleHasFallback(path) == path = "Account"

\* AdvancedMode fetches the latest blockhash before it sends, Account after
BlockhashBeforeSend(path) == path = "AdvancedMode"

\* `await storeClaimTransaction(...)` in Account, no await in AdvancedMode
StoreAwaited(path) == path = "Account"

\* !blockhash || !lastValidBlockHeight
needsLatestBlockhash(tx) ==
  tx.recentBlockhash = "" \/ ~Truthy(tx.lastValidBlockHeight)

ErrClosing == "Error closing account: "
ErrAdvInsufficient ==
  "Insufficient SOL to cover transaction fees. Please add more SOL to your wallet."
ErrAdvFetch == "Failed to fetch token accounts or wallet balance."
StatusProcessing == "Processing transaction..."
StatusClosed == "Account closed successfully. Signature: "

AdvMinBalance == 50000000      \* 0.05 SOL in lamports (data.balance < 0.05)

NewAccountView == [isLoading |-> FALSE, error |-> Null, statusMessage |-> Null]

SigOf(account) == 1000 + account

Without(list, a) == SelectSeq(list, LAMBDA x : x # a)

\* a close that has reached its first await, the build request
NewClose(path, account, wallet, code) ==
  [path |-> path, account |-> account, wallet |-> wallet, code |-> code,
   pc |-> "build", solReceived |-> 0, solShared |-> Undefined,
   signature |-> EmptySig, against |-> Null, confirm |-> Null,
   lookup |-> Null, confirmed |-> FALSE, stored |-> FALSE,
   reported |-> FALSE, outcome |-> "pending"]

\* what no step of a single-account close changes
singleFrame ==
  <<chunkVars, envVars, walletVars, walletBalance, isLoading, statusMessage,
    runVars, histVars, accountsWithoutBalance, fetchCount, signTransaction,
    accountsWithBalance, warningAccepted, advTokenAccounts, selectedAccounts,
    advScans>>

\* AdvancedMode: is the list (and not "No accounts found") on screen?
ListShown ==
  /\ warningAccepted
  /\ ~(~loading /\ advError = Null /\ Len(advTokenAccounts.list) = 0)

\* AdvancedMode.scanTokenAccounts(forceReload) up to its first await, for
\* the publicKey of the render that created the callback
BeginAdvScan(pk, forceReload) ==
  LET cache == accountsWithBalance
      d == getAccountsDecision(cache, forceReload)
  IN IF pk = Null
       THEN UNCHANGED <<loading, advError, advTokenAccounts, advScans>>
       ELSE CASE d = "throw" ->
                   \* catch and finally run in the same task
                   /\ advError' = ErrAdvFetch
                   /\ loading' = FALSE
                   /\ UNCHANGED <<advTokenAccounts, advScans>>
              [] d = "hit" ->
                   /\ advError' = Null
                   /\ loading' = TRUE
                   /\ advTokenAccounts' = cache
                   /\ advScans' = Append(advScans, [pc |-> "balance",
                                    forceReload |-> forceReload])
              [] d = "fetch" ->
                   /\ advError' = Null
                   /\ loading' = TRUE
                   /\ advScans' = Append(advScans, [pc |-> "lookup",
                                    forceReload |-> forceReload])
                   /\ UNCHANGED advTokenAccounts

\* <button onClick={() => setWarningAccepted(true)}> and the effect that
\* scans once the warning is accepted
AcceptWarning ==
  /\ ~warningAccepted
  /\ warningAccepted' = TRUE
  /\ BeginAdvScan(publicKey, FALSE)
  /\ UNCHANGED <<chunkVars, envVars, walletVars, uiVars, runVars, histVars,
                 scanVars, signTransaction, held, accountsWithBalance,
                 advStatusMessage, selectedAccounts, timers, accountView,
                 closes>>

\* getData of a pending AdvancedMode scan returns or throws
AdvLookupResponse ==
  \E k \in 1..Len(advScans) : \E kind \in LookupKinds :
    /\ advScans[k].pc = "lookup"
    /\ accountsWithBalance' =
         cacheAfterLookup(api, accountsWithBalance, kind, held)
    /\ IF getDataThrows(api, kind)
         THEN /\ advError' = ErrAdvFetch
              /\ loading' = FALSE
              /\ advScans' = RemoveAt(advScans, k)
              /\ UNCHANGED advTokenAccounts
         ELSE /\ advTokenAccounts' = resultAccounts(kind, held)
              /\ advScans' = [advScans EXCEPT ![k].pc = "balance"]
              /\ UNCHANGED <<advError, loading>>
    /\ UNCHANGED <<chunkVars, envVars, walletVars, uiVars, runVars, histVars,
                   scanVars, signTransaction, held, warningAccepted,
                   advStatusMessage, selectedAccounts, timers, accountView,
                   closes>>

AdvBalanceValues == {AdvMinBalance - 1, AdvMinBalance}
AdvBalanceResponses ==
  {[ok |-> FALSE, balance |-> Undefined]} \cup
  {[ok |-> TRUE, balance |-> b] : b \in AdvBalanceValues \cup {Undefined}}

\* data.balance < 0.05
advBalanceTooLow(balance) == LessThan(balance, AdvMinBalance)

\* the balance fetch of a pending AdvancedMode scan resolves; finally
AdvBalanceResponse ==
  \E k \in 1..Len(advScans) : \E r \in AdvBalanceResponses :
    /\ advScans[k].pc = "balance"
    /\ advScans' = RemoveAt(advScans, k)
    /\ advError' = IF ~r.ok THEN ErrAdvFetch
                   ELSE IF advBalanceTooLow(r.balance) THEN ErrAdvInsufficient
                   ELSE advError
    /\ loading' = FALSE
    /\ UNCHANGED <<chunkVars, envVars, walletVars, uiVars, runVars, histVars,
                   scanVars, signTransaction, held, accountsWithBalance,
                   warningAccepted, advTokenAccounts, advStatusMessage,
                   selectedAccounts, timers, accountView, closes>>

\* handleSelectAccount(pubkey, isSelected) from a checkbox of the list.
\* SpecSingle follows a user who selects first and closes afterwards.
SelectAccount ==
  \E a \in Range(advTokenAccounts.list) : \E isSelected \in BOOLEAN :
    /\ ListShown /\ closes = <<>>
    /\ isSelected = (a \notin Range(selectedAccounts))
    /\ selectedAccounts' = IF isSelected THEN Append(selectedAccounts, a)
                           ELSE Without(selectedAccounts, a)
    /\ UNCHANGED <<chunkVars, envVars, walletVars, uiVars, runVars, histVars,
                   scanVars, signTransaction, held, accountsWithBalance,
                   warningAccepted, loading, advTokenAccounts, advError,
                   advStatusMessage, advScans, timers, accountView, closes>>

\* selectedAccounts.forEach((pubkey) => closeAccountWIthBalance(pubkey)):
\* every call runs up to its first await before the click handler returns
startedByClick(selected) == selected

\* onClick of "Force Close Selected"; each closeAccountWIthBalance call
\* returns at the publicKey check, throws at the signTransaction check, or
\* reaches its build request.  SpecSingle follows one press of the button.
ForceCloseSelected ==
  /\ ListShown /\ Len(selectedAccounts) > 0
  /\ \A k \in 1..Len(closes) : closes[k].path # "AdvancedMode"
  /\ LET started == startedByClick(selectedAccounts)
         code == cookie
     IN IF publicKey = Null
          THEN /\ advError' = ErrNotConnected
               /\ UNCHANGED <<loading, closes>>
          ELSE IF ~signTransaction
          THEN UNCHANGED <<advError, loading, closes>>
          ELSE /\ loading' = TRUE
               /\ advError' = Null
               /\ closes' = closes \o
                    [k \in 1..Len(started) |->
                       NewClose("AdvancedMode", started[k], publicKey, code)]
  /\ UNCHANGED <<singleFrame, chain, held, error, tokenAccounts, accountKeys,
                 scans, lastCall, advStatusMessage, timers, accountView>>

\* onClick={() => closeAccount(account.pubkey)} of an Account in the list;
\* the handler runs up to its build request.  SpecSingle follows one press
\* of each account's button.
ClickCloseAccount ==
  \E a \in Range(tokenAccounts) :
    /\ \A k \in 1..Len(closes) :
         ~(closes[k].path = "Account" /\ closes[k].account = a)
    /\ IF publicKey = Null
         THEN /\ accountView' = [accountView EXCEPT
                                   ![a].error = ErrNotConnected]
              /\ UNCHANGED closes
         ELSE /\ accountView' = [accountView EXCEPT ![a] =
                   [isLoading |-> TRUE, error |-> Null,
                    statusMessage |-> StatusProcessing]]
              /\ closes' = Append(closes,
                             NewClose("Account", a, publicKey, cookie))
    /\ UNCHANGED <<singleFrame, chain, held, error, tokenAccounts, accountKeys,
                   scans, lastCall, loading, advError, advStatusMessage,
                   timers>>

\* the close goes on: it reaches its next await
SingleStep(k, o) ==
  /\ closes' = [closes EXCEPT ![k] = o]
  /\ UNCHANGED <<error, tokenAccounts, accountKeys, scans, lastCall, loading,
                 advError, advStatusMessage, timers, accountView>>

\* props.scanTokenAccounts() of an Account: the scanner's scanTokenAccounts
\* handed down by the component that lists the accounts, called without an
\* argument, so forceReload takes its default
propsScanTokenAccounts(pk) == BeginScan(pk, FALSE)

\* the end of a close: the success message, or the catch block; then the
\* finally block.  Account re-scans through props.scanTokenAccounts() and
\* schedules the clearing of its messages; AdvancedMode schedules
\* scanTokenAccounts(true).
SingleEnd(k, o, ok) ==
  /\ closes' = [closes EXCEPT ![k] =
       [o EXCEPT !.pc = "done",
                 !.outcome = IF ok THEN "success" ELSE "failure"]]
  /\ IF o.path = "Account"
       THEN /\ accountView' = [accountView EXCEPT ![o.account] =
                 [isLoading |-> FALSE,
                  error |-> IF ok THEN @.error ELSE ErrClosing,
                  statusMessage |-> IF ok THEN StatusClosed ELSE ""]]
            /\ propsScanTokenAccounts(o.wallet)
            /\ timers' = Append(timers, [kind |-> "clear",
                           account |-> o.account, wallet |-> o.wallet])
            /\ UNCHANGED <<loading, advError, advStatusMessage>>
       ELSE /\ loading' = FALSE
            /\ advError' = IF ok THEN advError ELSE ErrClosing
            /\ advStatusMessage' = IF ok THEN StatusClosed ELSE ""
            /\ timers' = Append(timers, [kind |-> "scan",
                           account |-> o.account, wallet |-> o.wallet])
            /\ UNCHANGED <<accountView, error, tokenAccounts, accountKeys,
                           scans, lastCall>>

\* the transaction deserialized from a single-account build response
BuiltSingleTx ==
  [recentBlockhash |-> "built", lastValidBlockHeight |-> Undefined]

\* closeAccountTransaction / closeAccountWithBalanceTransaction resolves;
\* Account then checks signTransaction
CloseBuildResponse ==
  \E k \in 1..Len(closes) :
    LET o == closes[k] IN
    /\ o.pc = "build"
    /\ \/ \E r \in BuildResponses :
            LET built == [o EXCEPT !.solReceived = r.solReceived,
                                   !.solShared = r.solShared]
            IN IF o.path = "Account" /\ ~signTransaction
                 THEN SingleEnd(k, built, FALSE)
                 ELSE SingleStep(k, [built EXCEPT !.pc = "sign"])
       \/ SingleEnd(k, o, FALSE)
    /\ UNCHANGED <<singleFrame, chain, held>>

\* the call a close awaits after signing and after sending, and the
\* blockhash it will confirm against as far as that is settled by then
afterSign(o) ==
  IF ~BlockhashBeforeSend(o.path) THEN [o EXCEPT !.pc = "send"]
  ELSE IF needsLatestBlockhash(BuiltSingleTx) THEN [o EXCEPT !.pc = "blockhash"]
  ELSE [o EXCEPT !.pc = "send", !.against = "own"]

afterSend(o) ==
  IF BlockhashBeforeSend(o.path) THEN [o EXCEPT !.pc = "confirm"]
  ELSE IF needsLatestBlockhash(BuiltSingleTx) THEN [o EXCEPT !.pc = "blockhash"]
  ELSE [o EXCEPT !.pc = "confirm", !.against = "own"]

\* signTransaction(transaction) resolves or rejects
CloseSignResponse ==
  \E k \in 1..Len(closes) :
    LET o == closes[k] IN
    /\ o.pc = "sign"
    /\ \/ SingleStep(k, afterSign(o))
       \/ SingleEnd(k, o, FALSE)
    /\ UNCHANGED <<singleFrame, chain, held>>

\* connection.getLatestBlockhash() resolves or rejects
CloseBlockhashResponse ==
  \E k \in 1..Len(closes) :
    LET o == closes[k] IN
    /\ o.pc = "blockhash"
    /\ \/ SingleStep(k, [o EXCEPT !.against = "latest",
                           !.pc = IF BlockhashBeforeSend(o.path)
                                    THEN "send" ELSE "confirm"])
       \/ SingleEnd(k, o, FALSE)
    /\ UNCHANGED <<singleFrame, chain, held>>

\* connection.sendRawTransaction resolves or rejects
CloseSendResponse ==
  \E k \in 1..Len(closes) :
    LET o == closes[k] IN
    /\ o.pc = "send"
    /\ \/ SingleStep(k, afterSend([o EXCEPT !.signature = SigOf(o.account)]))
       \/ SingleEnd(k, o, FALSE)
    /\ UNCHANGED <<singleFrame, chain, held>>

\* the account of close o is closed on chain
ClosedOnChain(o) ==
  /\ chain' = IF o.path = "Account" THEN Without(chain, o.account) ELSE chain
  /\ held' = IF o.path = "Account" THEN held ELSE Without(held, o.account)

\* the lines after a successful confirmation: the ClaimRecord is stored
\* (awaited by Account only), then the referral report if one is due
AfterConfirmed(k, o) ==
  LET c == [o EXCEPT !.confirmed = TRUE] IN
  IF StoreAwaited(c.path)
    THEN SingleStep(k, [c EXCEPT !.pc = "store"])
    ELSE IF referralDue(c.code, c.solShared)
    THEN SingleStep(k, [c EXCEPT !.stored = TRUE, !.pc = "referral"])
    ELSE SingleEnd(k, [c EXCEPT !.stored = TRUE], TRUE)

\* connection.confirmTransaction resolves: a result without err, a result
\* with err (the handler throws), or a thrown error.  A transaction whose
\* confirmation expired may have landed all the same.
CloseConfirmResponse ==
  \E k \in 1..Len(closes) : \E r \in ConfirmKinds :
    LET o == [closes[k] EXCEPT !.confirm = r] IN
    /\ closes[k].pc = "confirm"
    /\ IF r = "ok"
         THEN /\ ClosedOnChain(o)
              /\ AfterConfirmed(k, o)
         ELSE IF SingleHasFallback(o.path) /\ includesExpired(r)
         THEN /\ SingleStep(k, [o EXCEPT !.pc = "lookup"])
              /\ UNCHANGED <<chain, held>>
         ELSE /\ SingleEnd(k, o, FALSE)
              /\ IF r = "expired"
                   THEN ClosedOnChain(o) \/ UNCHANGED <<chain, held>>
                   ELSE UNCHANGED <<chain, held>>
    /\ UNCHANGED singleFrame

\* connection.getTransaction(signature) resolves or rejects
CloseGetTransactionResponse ==
  \E k \in 1..Len(closes) : \E r \in GetTransactionKinds :
    LET o == [closes[k] EXCEPT !.lookup = r] IN
    /\ closes[k].pc = "lookup"
    /\ IF lookupSucceeded(r)
         THEN /\ ClosedOnChain(o)
              /\ AfterConfirmed(k, o)
         ELSE /\ SingleEnd(k, o, FALSE)
              /\ UNCHANGED <<chain, held>>
    /\ UNCHANGED singleFrame

\* await storeClaimTransaction(wallet, signature, solReceived) resolves or
\* rejects (Account)
CloseStoreResponse ==
  \E k \in 1..Len(closes) :
    LET o == closes[k] IN
    /\ o.pc = "store"
    /\ \/ IF referralDue(o.code, o.solShared)
            THEN SingleStep(k, [o EXCEPT !.stored = TRUE, !.pc = "referral"])
            ELSE SingleEnd(k, [o EXCEPT !.stored = TRUE], TRUE)
       \/ SingleEnd(k, o, FALSE)
    /\ UNCHANGED <<singleFrame, chain, held>>

\* await updateAffiliatedWallet(..., solShared) resolves or rejects
CloseReferralResponse ==
  \E k \in 1..Len(closes) :
    LET o == closes[k] IN
    /\ o.pc = "referral"
    /\ \/ SingleEnd(k, [o EXCEPT !.reported = TRUE], TRUE)
       \/ SingleEnd(k, o, FALSE)
    /\ UNCHANGED <<singleFrame, chain, held>>

\* the oldest setTimeout callback runs (all delays are 3000 ms): Account
\* clears its messages, AdvancedMode calls scanTokenAccounts(true)
TimerFires ==
  /\ Len(timers) > 0
  /\ timers' = Tail(timers)
  /\ LET t == Head(timers) IN
     IF t.kind = "clear"
       THEN /\ accountView' = [accountView EXCEPT ![t.account] =
                 [@ EXCEPT !.statusMessage = "", !.error = ""]]
            /\ UNCHANGED <<loading, advError, advTokenAccounts, advScans>>
       ELSE /\ BeginAdvScan(t.wallet, TRUE)
            /\ UNCHANGED accountView
  /\ UNCHANGED <<chunkVars, envVars, walletVars, uiVars, runVars, histVars,
                 scanVars, signTransaction, held, accountsWithBalance,
                 warningAccepted, advStatusMessage, selectedAccounts, closes>>

\* ------------------------------------------------------- specifications
\* numbers of candidate accounts that give 0..MaxBatches batches, with full
\* and partial last batches
AccountCounts(cs) ==
  {0, cs} \cup {(k - 1) * cs + 1 : k \in 1..MaxBatches}

IdleChunk ==
  /\ chunkIn = <<>> /\ chunkB = 1 /\ chunkOut = <<>> /\ chunkDone = FALSE

IdleUI ==
  /\ publicKey = Null /\ signAllTransactions = FALSE /\ connects = 0
  /\ tokenAccounts = <<>> /\ accountKeys = <<>> /\ walletBalance = 0
  /\ isLoading = FALSE /\ error = Null /\ statusMessage = NoMessage
  /\ pc = "idle" /\ keys = <<>> /\ runPublicKey = Null /\ chunkedKeys = <<>> /\ allCloseTxs = <<>>
  /\ referralCode = Null /\ signedTxs = <<>> /\ i = 0 /\ signature = EmptySig
  /\ totalSolReceived = 0 /\ totalSolShared = 0
  /\ runs = 0 /\ log = <<>> /\ signArgs = <<>>
  /\ claimRecords = <<>> /\ referralReports = <<>>

IdleScanner ==
  /\ accountsWithoutBalance = DefinedList(<<>>)
  /\ scans = <<>> /\ fetchCount = 0 /\ lastCall = NoCall

\* AdvancedMode and the Account components as they mount, the wallet
\* adapter's signTransaction not offered, no token-holding account
IdleSingle ==
  /\ signTransaction = FALSE /\ held = <<>>
  /\ accountsWithBalance = DefinedList(<<>>)
  /\ warningAccepted = FALSE /\ loading = TRUE
  /\ advTokenAccounts = UndefinedList /\ advError = Null
  /\ advStatusMessage = Null /\ selectedAccounts = <<>>
  /\ advScans = <<>> /\ timers = <<>> /\ accountView = <<>> /\ closes = <<>>

\* the page after load: no wallet yet, empty React state, empty cache
Init ==
  /\ IdleChunk /\ IdleUI /\ IdleScanner /\ IdleSingle
  /\ variant \in Variants
  /\ api = "checked"
  /\ cookie \in {Null, "ref"}
  /\ \E n \in AccountCounts(ChunkSize(variant)) : chain = Iota(n)

Next ==
  \/ Connect
  \/ Disconnect
  \/ ScanLookupResponse
  \/ ScanBalanceResponse
  \/ ClickCloseAll
  \/ BalanceResponse
  \/ BuildResponse
  \/ BlockhashResponse
  \/ SignResponse
  \/ SendResponse
  \/ ConfirmResponse
  \/ GetTransactionResponse
  \/ StoreResponse
  \/ ReferralResponse

Spec == Init /\ [][Next]_vars

\* ---- SpecFair: the version that refreshes the blockhash and the version
\* that has the fallback, with a referral cookie, where every call
\* closeAllAccounts awaits (backend, wallet, RPC node, Claim Recorder)
\* eventually returns or throws
InitFair == Init /\ variant \in {"chunk20", "chunk70"} /\ cookie = "ref"

\* (the handler awaits one call at a time, so at most one of these is enabled)
AwaitedCallReturns ==
  \/ BalanceResponse \/ BuildResponse \/ BlockhashResponse \/ SignResponse
  \/ SendResponse \/ ConfirmResponse \/ GetTransactionResponse
  \/ StoreResponse \/ ReferralResponse

CallsReturn == WF_vars(AwaitedCallReturns)

SpecFair == InitFair /\ [][Next]_vars /\ CallsReturn

\* ---- SpecRerun: a wallet that has one account to close, through up to
\* MaxRuns closeAllAccounts invocations of the version that refreshes the
\* blockhash or of the version that has the fallback
InitRerun ==
  /\ IdleChunk /\ IdleUI /\ IdleScanner /\ IdleSingle
  /\ variant \in {"chunk20", "chunk70"} /\ api = "checked" /\ cookie = Null
  /\ chain = Iota(1)

ClickCloseAllAgain == ClickCloseAllUpTo(MaxRuns)

\* (without a referral cookie no run awaits a referral report)
NextRerun ==
  \/ Connect
  \/ Disconnect
  \/ ScanLookupResponse
  \/ ScanBalanceResponse
  \/ ClickCloseAllAgain
  \/ BalanceResponse
  \/ BuildResponse
  \/ BlockhashResponse
  \/ SignResponse
  \/ SendResponse
  \/ ConfirmResponse
  \/ GetTransactionResponse
  \/ StoreResponse

SpecRerun == InitRerun /\ [][NextRerun]_vars

\* ---- SpecSingle: a connected wallet that has either one empty account,
\* listed with a Close button, or two token-holding accounts, which
\* AdvancedMode lists once its warning is accepted
InitSingle ==
  /\ IdleChunk
  /\ variant = "chunk3" /\ api = "checked" /\ cookie \in {Null, "ref"}
  /\ publicKey = "A" /\ signAllTransactions = TRUE /\ connects = 1
  /\ signTransaction \in BOOLEAN
  /\ \/ chain = Iota(1) /\ held = <<>>
     \/ chain = <<>> /\ held = <<11, 12>>
  /\ tokenAccounts = chain /\ accountKeys = chain
  /\ walletBalance = MinBalance
  /\ isLoading = FALSE /\ error = Null /\ statusMessage = NoMessage
  /\ pc = "idle" /\ keys = <<>> /\ runPublicKey = Null /\ chunkedKeys = <<>>
  /\ allCloseTxs = <<>> /\ referralCode = Null /\ signedTxs = <<>> /\ i = 0
  /\ signature = EmptySig /\ totalSolReceived = 0 /\ totalSolShared = 0
  /\ runs = 0 /\ log = <<>> /\ signArgs = <<>>
  /\ claimRecords = <<>> /\ referralReports = <<>>
  /\ accountsWithoutBalance = DefinedList(chain)
  /\ scans = <<>> /\ fetchCount = 0
  /\ lastCall = callFetched(api, [forceReload |-> FALSE,
                                  before |-> DefinedList(<<>>)],
                            DefinedList(<<>>), "ok", chain)
  /\ accountsWithBalance = DefinedList(<<>>)
  /\ warningAccepted = FALSE /\ loading = TRUE
  /\ advTokenAccounts = UndefinedList /\ advError = Null
  /\ advStatusMessage = Null /\ selectedAccounts = <<>>
  /\ advScans = <<>> /\ timers = <<>> /\ closes = <<>>
  /\ accountView = [k \in 1..Len(chain) |-> NewAccountView]

NextSingle ==
  \/ ScanBalanceResponse
  \/ AcceptWarning
  \/ AdvLookupResponse
  \/ AdvBalanceResponse
  \/ SelectAccount
  \/ ForceCloseSelected
  \/ ClickCloseAccount
  \/ CloseBuildResponse
  \/ CloseSignResponse
  \/ CloseBlockhashResponse
  \/ CloseSendResponse
  \/ CloseConfirmResponse
  \/ CloseGetTransactionResponse
  \/ CloseStoreResponse
  \/ CloseReferralResponse
  \/ TimerFires

SpecSingle == InitSingle /\ [][NextSingle]_vars

\* ---- SpecChunk: chunkArray applied to every bounded list and batch size
RECURSIVE SeqsUpTo(_, _)
SeqsUpTo(S, n) ==
  IF n = 0 THEN {<<>>}
  ELSE LET shorter == SeqsUpTo(S, n - 1)
       IN shorter \cup {Append(q, x) : q \in {t \in shorter : Len(t) = n - 1},
                                       x \in S}

InitChunk ==
  /\ IdleUI /\ IdleScanner /\ IdleSingle
  /\ variant = "chunk3" /\ api = "checked" /\ cookie = Null /\ chain = <<>>
  /\ chunkIn \in SeqsUpTo(1..MaxElem, MaxLen)
  /\ chunkB \in 1..MaxB
  /\ chunkOut = <<>>
  /\ chunkDone = FALSE

ChunkCall ==
  /\ ~chunkDone
  /\ chunkOut' = chunkArray(chunkIn, chunkB)
  /\ chunkDone' = TRUE
  /\ UNCHANGED <<singleVars, chunkIn, chunkB, envVars, walletVars, uiVars, runVars,
                 histVars, scanVars>>

NextChunk == ChunkCall

SpecChunk == InitChunk /\ [][NextChunk]_vars

\* ---- SpecWallets: the page while the wallet adapter reports one wallet
\* after another, without a page reload in between
InitWallets ==
  /\ IdleChunk /\ IdleUI /\ IdleScanner /\ IdleSingle
  /\ variant = "chunk70" /\ cookie = Null
  /\ api \in ApiVersions
  /\ chain \in {Iota(n) : n \in 0..MaxAccounts}

\* useWallet() yields another publicKey (first connection, reconnection or
\* account change in the wallet); the effect that depends on publicKey
\* runs scanTokenAccounts() for it
ConnectWallet ==
  \E w \in Wallets :
    /\ publicKey # w /\ connects < MaxConnects
    /\ connects' = connects + 1
    /\ publicKey' = w
    /\ signAllTransactions' = TRUE
    /\ BeginScan(w, FALSE)
    /\ UNCHANGED <<singleVars, chunkVars, envVars, walletBalance, isLoading,
                   statusMessage, runVars, histVars, accountsWithoutBalance,
                   fetchCount, chain>>

NextWallets ==
  \/ ConnectWallet
  \/ Disconnect
  \/ ScanLookupResponse
  \/ ScanBalanceResponse

SpecWallets == InitWallets /\ [][NextWallets]_vars

\* ---- SpecScanner: the scanner of src/api/accounts.ts called on its own,
\* with either flag, while the backend's answer changes out of band
ScanLists == {Iota(n) : n \in 0..MaxAccounts}

InitScanner ==
  /\ IdleChunk /\ IdleUI /\ IdleScanner /\ IdleSingle
  /\ variant = "chunk3" /\ cookie = Null
  /\ api \in ApiVersions
  /\ chain \in ScanLists

\* getAccountsWithoutBalanceFromAddress(publicKey, forceReload) up to its
\* first await
ScannerCall ==
  \E forceReload \in BOOLEAN :
    LET cache == accountsWithoutBalance
        d == getAccountsDecision(cache, forceReload)
    IN /\ fetchCount < MaxFetch
       /\ fetchCount' = fetchCount + 1
       /\ CASE d = "throw" -> /\ lastCall' = callThrew(forceReload, cache)
                              /\ UNCHANGED scans
            [] d = "hit" -> /\ lastCall' = callHit(forceReload, cache)
                            /\ UNCHANGED scans
            [] d = "fetch" ->
                 /\ scans' = Append(scans, [pc |-> "lookup",
                               forceReload |-> forceReload, before |-> cache])
                 /\ UNCHANGED lastCall
       /\ UNCHANGED <<singleVars, chunkVars, envVars, walletVars, uiVars, runVars,
                      histVars, accountsWithoutBalance, chain>>

\* getData resolves and the scanner call returns or throws
ScannerResponse ==
  \E k \in 1..Len(scans) : \E kind \in LookupKinds :
    /\ scans[k].pc = "lookup"
    /\ accountsWithoutBalance' =
         cacheAfterLookup(api, accountsWithoutBalance, kind, chain)
    /\ lastCall' = callFetched(api, scans[k], accountsWithoutBalance, kind, chain)
    /\ scans' = RemoveAt(scans, k)
    /\ UNCHANGED <<singleVars, chunkVars, envVars, walletVars, uiVars, runVars, histVars,
                   fetchCount, chain>>

\* accounts are created or closed by someone else
BackendChange ==
  /\ chain' \in ScanLists \ {chain}
  /\ UNCHANGED <<singleVars, chunkVars, envVars, walletVars, uiVars, runVars, histVars,
                 accountsWithoutBalance, scans, fetchCount, lastCall>>

NextScanner == ScannerCall \/ ScannerResponse \/ BackendChange

SpecScanner == InitScanner /\ [][NextScanner]_vars

\* ================================================================ claims
LogHas(e) == \E p \in 1..Len(log) : log[p] = e
RunRecords == {c \in Range(claimRecords) : c.run = runs}
RunReports == {c \in Range(referralReports) : c.run = runs}

\* C1: chunkArray(list, B) with B >= 1 returns ceil(N/B) batches, each of
\* 1..B elements, whose concatenation in order is the original list.
C1_ChunkPartition ==
  chunkDone =>
    /\ Len(chunkOut) = CeilDiv(Len(chunkIn), chunkB)
    /\ \A k \in 1..Len(chunkOut) :
         Len(chunkOut[k]) >= 1 /\ Len(chunkOut[k]) <= chunkB
    /\ Flatten(chunkOut) = chunkIn

C1_Witness ==
  /\ chunkDone /\ Len(chunkIn) = 4 /\ chunkB = 3
  /\ Len(chunkOut) = 2 /\ Len(chunkOut[2]) = 1

\* C2: when the confirmation of batch b ends with the height-exceeded error
\* and the lookup by signature finds the transaction without error, the run
\* does not fail there: storeClaimTransaction is called for batch b with the
\* batch's signature, and once the claim is recorded the loop goes on to
\* batch b+1 (or to the success message).
C2_ReconciledBatchSucceeds ==
  \A p \in 1..Len(log) :
    (/\ log[p].ev = "lookup" /\ log[p].r = "found"
     /\ p > 2 /\ log[p - 2] = Ev("confirm", log[p].b, "expired")) =>
      LET b == log[p].b
          recorded == /\ LogHas(Ev("store", b, "ok"))
                      /\ LogHas(Ev("referral", b, "call")) =>
                           LogHas(Ev("referral", b, "ok"))
      IN
      /\ p < Len(log) /\ log[p + 1] = Ev("store", b, "call")
      /\ signature = Sig(runs, b) \/ i + 1 > b
      /\ LogHas(Ev("store", b, "ok")) =>
           \E c \in RunRecords : c.batch = b /\ c.signature = Sig(runs, b)
      /\ (recorded /\ (pc = "idle" \/ i + 1 > b) /\ b < Len(signedTxs)) =>
           LogHas(Ev("send", b + 1, "call"))
      /\ (recorded /\ pc = "idle" /\ b = Len(signedTxs)) =>
           LogHas(Ev("success", 0, "shown"))

C2_Witness ==
  /\ LogHas(Ev("confirm", 1, "expired")) /\ LogHas(Ev("lookup", 1, "found"))
  /\ \E c \in RunRecords : c.batch = 1
  /\ LogHas(Ev("send", 2, "call"))

\* C3: when the lookup after a height-exceeded confirmation of batch b finds
\* nothing, or a transaction with an execution error, the run ends there
\* with the bulk error and batch b never gets a claim record or a referral
\* report.
C3_UnreconciledBatchAborts ==
  \A p \in 1..Len(log) :
    (log[p].ev = "lookup" /\ log[p].r \in {"none", "foundErr"}) =>
      LET b == log[p].b IN
      /\ pc = "idle"
      /\ p < Len(log) /\ log[p + 1] = Ev("setError", 0, ErrBulk)
      /\ ~LogHas(Ev("success", 0, "shown"))
      /\ ~LogHas(Ev("store", b, "call")) /\ ~LogHas(Ev("referral", b, "call"))
      /\ ~\E c \in RunRecords : c.batch = b
      /\ ~\E c \in RunReports : c.batch = b

C3_Witness ==
  /\ LogHas(Ev("confirm", 2, "expired")) /\ LogHas(Ev("lookup", 2, "none"))
  /\ \E c \in RunRecords : c.batch = 1

\* C4: a send error or a confirmation error other than height-exceeded (a
\* confirmation result with an execution error included) ends the run at
\* once: no lookup by signature for that batch, no claim record for it.
C4_OtherErrorsAbort ==
  \A p \in 1..Len(log) :
    (log[p].ev \in {"send", "confirm"} /\ log[p].r \in {"error", "execErr"}) =>
      LET b == log[p].b IN
      /\ pc = "idle"
      /\ p < Len(log) /\ log[p + 1] = Ev("setError", 0, ErrBulk)
      /\ ~LogHas(Ev("lookup", b, "call"))
      /\ ~LogHas(Ev("store", b, "call"))
      /\ ~\E c \in RunRecords : c.batch = b

C4_Witness ==
  /\ HasFallback(variant)
  /\ LogHas(Ev("confirm", 2, "execErr"))
  /\ \E c \in RunRecords : c.batch = 1

\* C5: a run makes at most one bulk-sign call, and exactly one once it
\* submits anything; the call comes after every batch's build request has
\* returned and before the first submission, and carries the unsigned
\* transactions of all batches in partition order.  After a failed build
\* request there is no sign call and no submission.
SignCalls == {p \in 1..Len(log) : log[p] = Ev("sign", 0, "call")}

C5_OneBulkSign ==
  /\ Cardinality(SignCalls) <= 1
  /\ Len(signArgs) = Cardinality(SignCalls)
  /\ (\E q \in 1..Len(log) : log[q].ev = "send") => Cardinality(SignCalls) = 1
  /\ \A p \in SignCalls :
       /\ chunkedKeys = chunkArray(keys, ChunkSize(variant))
       /\ \A b \in 1..Len(chunkedKeys) :
            \E q \in 1..(p - 1) : log[q] = Ev("build", b, "ok")
       /\ \A q \in 1..Len(log) : log[q].ev = "send" => q > p
       /\ Len(signArgs[1]) = Len(chunkedKeys)
       /\ \A b \in 1..Len(chunkedKeys) :
            /\ signArgs[1][b].batch = b
            /\ signArgs[1][b].keys = chunkedKeys[b]
            /\ ~signArgs[1][b].signed
  /\ (\E q \in 1..Len(log) : log[q].ev = "build" /\ log[q].r = "throw") =>
       /\ SignCalls = {}
       /\ ~\E q \in 1..Len(log) : log[q].ev = "send"

C5_Witness ==
  /\ Len(chunkedKeys) = 2 /\ Cardinality(SignCalls) = 1
  /\ LogHas(Ev("send", 2, "call"))

\* C6: batches are submitted in partition order, and the claim record and
\* the referral report of batch b are made after the confirmation of batch
\* b has resolved and are over before the submission of batch b+1 begins.
SendCallsBefore(p) ==
  {q \in 1..(p - 1) : log[q].ev = "send" /\ log[q].r = "call"}

C6_BatchOrder ==
  /\ \A p \in 1..Len(log) :
       (log[p].ev = "send" /\ log[p].r = "call") =>
         /\ Cardinality(SendCallsBefore(p)) = log[p].b - 1
         /\ signedTxs[log[p].b].keys = chunkedKeys[log[p].b]
         /\ signedTxs[log[p].b].signed
  /\ \A p \in 1..Len(log) :
       (log[p].ev \in {"store", "referral"}) =>
         LET b == log[p].b IN
         /\ \E q \in 1..(p - 1) :
              log[q].ev = "confirm" /\ log[q].b = b /\ log[q].r # "call"
         /\ \A q \in 1..Len(log) :
              log[q] = Ev("send", b + 1, "call") => q > p
         /\ \A q \in 1..Len(log) :
              log[q] = Ev("send", b, "call") => q < p

C6_Witness ==
  /\ LogHas(Ev("store", 1, "ok")) /\ LogHas(Ev("referral", 1, "ok"))
  /\ LogHas(Ev("send", 2, "call")) /\ LogHas(Ev("store", 2, "ok"))

\* C7: when batch b fails without reconciliation (its send fails, or its
\* confirmation fails and no lookup finds the transaction), the run is over:
\* no later batch is submitted and the claim records of the run are exactly
\* those of batches 1..b-1.
BatchFailed(b) ==
  \/ LogHas(Ev("send", b, "error"))
  \/ LogHas(Ev("confirm", b, "execErr")) \/ LogHas(Ev("confirm", b, "error"))
  \/ /\ \/ LogHas(Ev("send", b, "errorExpiredText"))
        \/ LogHas(Ev("confirm", b, "expired"))
     /\ ~(pc = "lookup" /\ i + 1 = b)
     /\ ~LogHas(Ev("lookup", b, "found"))

C7_NoRollbackNoContinue ==
  \A b \in 1..Len(signedTxs) :
    BatchFailed(b) =>
      /\ pc = "idle"
      /\ \A j \in (b + 1)..Len(signedTxs) : ~LogHas(Ev("send", j, "call"))
      /\ {c.batch : c \in RunRecords} = 1..(b - 1)
      /\ Len(claimRecords) = b - 1

C7_Witness ==
  /\ BatchFailed(2) /\ Len(claimRecords) = 1 /\ pc = "idle"
  /\ LogHas(Ev("lookup", 2, "none"))

\* C8: a scanner call with forceReload = false and a non-empty cache returns
\* the cached list without a lookup request; with an empty cache it issues a
\* lookup, and when the lookup returns, the cache holds what is returned.
C8_CacheHitAndMiss ==
  /\ (/\ lastCall.status # "none" /\ ~lastCall.forceReload
      /\ lastCall.before.def /\ Len(lastCall.before.list) > 0) =>
       /\ lastCall.status = "returned"
       /\ ~lastCall.issued
       /\ lastCall.returned = lastCall.before
       /\ accountsWithoutBalance = lastCall.before
  /\ (/\ lastCall.status # "none" /\ ~lastCall.forceReload
      /\ lastCall.before = DefinedList(<<>>)) =>
       /\ lastCall.issued
       /\ lastCall.status = "returned" =>
            accountsWithoutBalance = lastCall.returned

C8_Witness ==
  /\ lastCall.status = "returned" /\ ~lastCall.forceReload
  /\ ~lastCall.issued /\ Len(lastCall.before.list) = 2
  /\ chain # lastCall.returned.list

\* C9 (as claimed): every scanner call with forceReload = true issues a
\* lookup request, whatever the cache holds.
C9_ForceReloadAlwaysIssues ==
  (lastCall.status # "none" /\ lastCall.forceReload) => lastCall.issued

\* C10: a numeric balance below the minimum ends the run with the
\* insufficient-balance error before any build request, sign call,
\* submission or claim record; a balance equal to the minimum goes on.
C10_InsufficientBalanceAborts ==
  \A p \in 1..Len(log) :
    (log[p].ev = "balance" /\ log[p].r \in {"low", "ok"}) =>
      LET balance == log[p].b IN
      /\ (balance # Undefined /\ balance < MinBalance) =>
           /\ log = <<Ev("balance", 0, "call"), log[p],
                      Ev("setError", 0, ErrInsufficient),
                      Ev("scan", 0, "call")>>
           /\ pc = "idle" /\ ~isLoading
           /\ allCloseTxs = <<>> /\ signArgs = <<>> /\ signedTxs = <<>>
           /\ claimRecords = <<>> /\ referralReports = <<>>
      /\ (balance = MinBalance /\ Len(keys) > 0) =>
           /\ p < Len(log) /\ log[p + 1] = Ev("build", 1, "call")

C10_Witness ==
  /\ LogHas(Ev("balance", MinBalance - 1, "low"))
  /\ pc = "idle" /\ Len(keys) > 0

\* C11: the low-balance abort leaves the candidate lists alone: neither the
\* step that starts closeAllAccounts nor the step in which it finds the
\* balance below the minimum and ends changes tokenAccounts, accountKeys or
\* the scanner cache.
LowBalanceLogged(l) ==
  \E p \in 1..Len(l) : l[p].ev = "balance" /\ l[p].r = "low"

PreconditionErrors ==
  {ErrNotConnected, ErrNoSignAll, ErrInsufficient, ErrNoAccounts}
NetworkEvents ==
  {"balance", "build", "blockhash", "send", "confirm", "lookup", "store",
   "referral", "scan"}

RECURSIVE SumReceived(_)
SumReceived(closeTxs) ==
  IF closeTxs = <<>> THEN 0
  ELSE Head(closeTxs).solReceived + SumReceived(Tail(closeTxs))

\* C13 (as claimed): after a run in which every batch succeeded, the total
\* reclaimed shown to the user equals the sum of the solReceived values of
\* all batches' build responses.
C13_TotalIsExactSum ==
  LogHas(Ev("success", 0, "shown")) =>
    /\ statusMessage.shown
    /\ statusMessage.reclaimed = SumReceived(allCloseTxs)

\* C13 (amended): the total reclaimed shown is that sum written with six
\* decimals of SOL, i.e. rounded to the nearest thousand lamports.
C13_TotalIsRoundedSum ==
  LogHas(Ev("success", 0, "shown")) =>
    /\ statusMessage.shown
    /\ Len(allCloseTxs) = Len(chunkedKeys)
    /\ statusMessage.reclaimed = toFixed6(SumReceived(allCloseTxs))
    /\ totalSolReceived = SumReceived(allCloseTxs)

C13_Witness ==
  /\ LogHas(Ev("success", 0, "shown")) /\ Len(allCloseTxs) = 2
  /\ SumReceived(allCloseTxs) = 3539280
  /\ statusMessage.reclaimed = 3539000

RECURSIVE SumClosed(_)
SumClosed(records) ==
  IF records = <<>> THEN 0
  ELSE Head(records).accounts_closed + SumClosed(Tail(records))

StoreCalls(b) == {p \in 1..Len(log) : log[p] = Ev("store", b, "call")}

\* C14: storeClaimTransaction is called once for every batch whose
\* transaction succeeded and for no other batch; no two records share a
\* batch or a signature; the account count of the record of batch b is the
\* number of keys sent in the build request of batch b; a fully successful
\* run over N accounts leaves ceil(N/B) records whose counts sum to N.
C14_OneRecordPerBatch ==
  /\ \A b \in 1..Len(chunkedKeys) :
       /\ Cardinality(StoreCalls(b)) <= 1
       /\ \A p \in 1..Len(log) :
            (log[p] = Ev("confirm", b, "ok") \/ log[p] = Ev("lookup", b, "found"))
              => (p < Len(log) /\ log[p + 1] = Ev("store", b, "call"))
       /\ \A p \in StoreCalls(b) :
            p > 1 /\ log[p - 1] \in {Ev("confirm", b, "ok"),
                                     Ev("lookup", b, "found")}
       /\ LogHas(Ev("store", b, "ok")) <=> \E c \in RunRecords : c.batch = b
  /\ \A k, m \in 1..Len(claimRecords) :
       (\/ claimRecords[k].signature = claimRecords[m].signature
        \/ claimRecords[k].batch = claimRecords[m].batch) => k = m
  /\ \A k \in 1..Len(claimRecords) :
       LET c == claimRecords[k] IN
       /\ c.batch \in 1..Len(allCloseTxs)
       /\ c.signature = Sig(runs, c.batch)
       /\ c.accounts_closed = Len(allCloseTxs[c.batch].transaction.keys)
       /\ c.accounts_closed = Len(chunkedKeys[c.batch])
       /\ c.sol_received = allCloseTxs[c.batch].solReceived
  /\ LogHas(Ev("success", 0, "shown")) =>
       /\ Len(claimRecords) = CeilDiv(Len(keys), ChunkSize(variant))
       /\ SumClosed(claimRecords) = Len(keys)

C14_Witness ==
  /\ LogHas(Ev("success", 0, "shown")) /\ Len(claimRecords) = 2
  /\ claimRecords[1].accounts_closed = ChunkSize(variant)
  /\ claimRecords[2].accounts_closed = 1

ScanCalls == {p \in 1..Len(log) : log[p] = Ev("scan", 0, "call")}

\* C15 (as claimed): a run that has issued its first build request ends,
\* after success and after a failure alike, with exactly one
\* scanTokenAccounts(true): the call is the last thing the run does, it
\* issues an account lookup whatever the cache holds, and when that lookup
\* has returned a list, the cache and the displayed lists are that list.
C15_ForcedRescanAtEnd ==
  /\ Cardinality(ScanCalls) <= 1
  /\ pc # "idle" => ScanCalls = {}
  /\ (pc = "idle" /\ LogHas(Ev("build", 1, "call"))) =>
       /\ ScanCalls = {Len(log)}
       /\ \/ \E k \in 1..Len(scans) :
               /\ scans[k].pc = "lookup" /\ scans[k].forceReload
          \/ lastCall.forceReload /\ lastCall.issued
       /\ (/\ lastCall.forceReload /\ lastCall.status = "returned"
           /\ lastCall.returned.def) =>
            /\ accountsWithoutBalance = DefinedList(chain)
            /\ tokenAccounts = chain /\ accountKeys = chain

\* C16: every closeAllAccounts invocation ends when the calls it awaits
\* return or throw, and whenever no invocation is running (after success,
\* after a batch failure, after a precondition abort) isLoading is false.
C16_TerminatesNotLoading ==
  /\ [](pc = "idle" => ~isLoading)
  /\ (pc # "idle") ~> (pc = "idle" /\ ~isLoading)

C16_Witness ==
  /\ pc = "idle" /\ ~isLoading /\ runs = 1
  /\ LogHas(Ev("confirm", 1, "ok")) /\ LogHas(Ev("send", 2, "error"))

\* C17 (as claimed): when a run has ended with a failure (a failing batch,
\* a low balance, no candidates) and the re-scan it started has returned a
\* list and a balance, the error state still holds the text set for that
\* failure.
RunFailures == {ErrBulk, ErrInsufficient, ErrNoAccounts}

C17_ErrorBannerPersists ==
  \A p \in 1..Len(log) :
    (/\ log[p].ev = "setError" /\ log[p].r \in RunFailures
     /\ pc = "idle" /\ scans = <<>>
     /\ lastCall.forceReload /\ lastCall.status = "returned"
     /\ lastCall.returned.def
     /\ error # ErrFetch) =>
      error = log[p].r

\* C18 (as claimed): when batch b fails after batches 1..b-1 succeeded, the
\* state shown to the user at the end of the run carries the totals of the
\* batches before b: the message state shows their reclaimed and shared
\* sums.
C18_PartialTotalsShown ==
  \A b \in 2..Len(signedTxs) :
    (BatchFailed(b) /\ pc = "idle") =>
      /\ totalSolReceived = SumReceived(SubSeq(allCloseTxs, 1, b - 1))
      /\ statusMessage.shown
      /\ statusMessage.reclaimed = toFixed6(totalSolReceived)
      /\ statusMessage.shared = toFixed6(totalSolShared)

\* ---- C19 (as claimed; refuted by AdvancedMode.closeAccountWIthBalance):
\* every single-account close, on either path, whose confirmation ended with
\* the height-exceeded error looks the transaction up by signature; it goes
\* on as a success exactly when the lookup found the transaction with no
\* execution error, and ends in failure otherwise.
C19_SameConfirmationPolicy ==
  \A k \in 1..Len(closes) :
    LET o == closes[k] IN
    o.confirm = "expired" =>
      /\ o.pc = "lookup" \/ o.lookup # Null
      /\ o.lookup # Null =>
           /\ o.confirmed <=> lookupSucceeded(o.lookup)
           /\ ~lookupSucceeded(o.lookup) => o.outcome = "failure"

\* a close is in flight: sent, and its confirmation (with the lookup that
\* may follow it) has not resolved
InFlight(o) ==
  o.signature # EmptySig /\ o.pc \in {"blockhash", "confirm", "lookup"}

\* ---- C20 (as claimed; refuted by "Force Close Selected"): at no
\* reachable state are two close transactions in flight, counting the batch
\* the bulk close awaits and every single-account close.
C20_OneCloseInFlight ==
  Cardinality({k \in 1..Len(closes) : InFlight(closes[k])})
    + (IF pc \in {"confirm", "lookup"} THEN 1 ELSE 0) <= 1

ReferralCalls(b) == {p \in 1..Len(log) : log[p] = Ev("referral", b, "call")}

BatchSucceeded(b) ==
  LogHas(Ev("confirm", b, "ok")) \/ LogHas(Ev("lookup", b, "found"))

\* ---- C21 (as claimed; refuted when the ClaimRecord call of a confirmed
\* batch rejects): once the handler is past the storing of a successful
\* batch's ClaimRecord, updateAffiliatedWallet has been called for the batch
\* exactly when the run read a referral cookie and the batch's solShared is
\* non-zero; it is called at most once per batch, never for a batch that did
\* not succeed, and the report carries the batch's solShared.
C21_ReferralIffDue ==
  \A b \in 1..Len(allCloseTxs) :
    /\ Cardinality(ReferralCalls(b)) <= 1
    /\ ~BatchSucceeded(b) => ReferralCalls(b) = {}
    /\ (BatchSucceeded(b)
         /\ (LogHas(Ev("store", b, "ok")) \/ LogHas(Ev("store", b, "throw"))))
       => (ReferralCalls(b) # {}
             <=> referralDue(referralCode, allCloseTxs[b].solShared))
    /\ \A c \in RunReports :
         c.batch = b => c.sol_shared = allCloseTxs[b].solShared

C23_NoBuildOfClosedAccounts ==
  pc = "build" =>
    \A b \in 1..Min(Len(allCloseTxs) + 1, Len(chunkedKeys)) :
      Range(chunkedKeys[b]) \subseteq Range(chain)

\* the success banner is on screen: {statusMessage && !error && ...}
SuccessDisplayed == statusMessage.shown /\ error = Null

\* ---- C24 (as claimed; refuted by a failed run that follows a successful
\* one): when no closeAllAccounts is running and every scan has completed,
\* the success message is displayed only if the most recent closeAllAccounts
\* completed every batch.
C24_SuccessOnlyOfLastRun ==
  (pc = "idle" /\ runs > 0 /\ scans = <<>> /\ SuccessDisplayed)
    => LogHas(Ev("success", 0, "shown"))

\* ---- C25 (as claimed; refuted by a balance response without a balance
\* field): every build request of a run is preceded by a balance response
\* of that run that carried a number, and the number is at least 0.001 SOL.
C25_BuildOnlyAfterBalanceSeen ==
  \A p \in 1..Len(log) :
    (log[p].ev = "build" /\ log[p].r = "call") =>
      \E q \in 1..(p - 1) :
        /\ log[q].ev = "balance" /\ log[q].r = "ok"
        /\ log[q].b # Undefined /\ log[q].b >= MinBalance

\* the Claim Recorder failed for batch b: the storing of the ClaimRecord or
\* the referral report rejected
RecorderFailed(b) ==
  LogHas(Ev("store", b, "throw")) \/ LogHas(Ev("referral", b, "throw"))

\* ---- C26 (as claimed; refuted by the awaited Claim Recorder calls): when
\* the Claim Recorder fails for a confirmed batch, the run does not report
\* the bulk error, and once the run is over every remaining batch has been
\* submitted.
C26_RecorderFireAndForget ==
  \A b \in 1..Len(signedTxs) :
    RecorderFailed(b) =>
      /\ ~LogHas(Ev("setError", 0, ErrBulk))
      /\ (pc = "idle" /\ b < Len(signedTxs)) => LogHas(Ev("send", b + 1, "call"))

\* the lookups in flight that will write a module-level cache when they return
PendingLookups(ss) == {k \in 1..Len(ss) : ss[k].pc = "lookup"}

\* ---- C27 (as claimed; refuted by the delayed re-scans of two AdvancedMode
\* closes): at no reachable state are two account lookups pending that will
\* write the same cache, be it accountsWithoutBalance or accountsWithBalance.
C27_OneCacheWriter ==
  /\ Cardinality(PendingLookups(scans)) <= 1
  /\ Cardinality(PendingLookups(advScans)) <= 1

\* ---- C28: the scanner cache is not keyed by wallet.  When the cache holds
\* the non-empty list that was looked up for one wallet and the page turns
\* to a different wallet, the scan the page runs for the new wallet (with
\* forceReload false) returns and displays the first wallet's list, which
\* is not the new wallet's, and starts no lookup.
CachedListOf(a) ==
  /\ accountsWithoutBalance.def
  /\ Len(accountsWithoutBalance.list) > 0
  /\ accountsWithoutBalance.list = accountsOnChain(a)

C28_CacheNotKeyedByWallet ==
  [][\A a \in Wallets : \A b \in Wallets \ {a} :
       (CachedListOf(a) /\ publicKey # b /\ publicKey' = b) =>
         /\ lastCall'.status = "returned" /\ ~lastCall'.forceReload
         /\ ~lastCall'.issued
         /\ lastCall'.returned.list = accountsOnChain(a)
         /\ lastCall'.returned.list # accountsOnChain(b)
         /\ tokenAccounts' = accountsOnChain(a)
         /\ accountKeys' = accountsOnChain(a)
         /\ Cardinality(PendingLookups(scans')) = Cardinality(PendingLookups(scans))
         /\ accountsWithoutBalance' = accountsWithoutBalance]_vars

C28_Witness ==
  /\ publicKey = "B" /\ connects > 1
  /\ CachedListOf("A")
  /\ lastCall.status = "returned" /\ ~lastCall.issued
  /\ tokenAccounts = accountsOnChain("A")
  /\ tokenAccounts # accountsOnChain("B")
  /\ PendingLookups(scans) = {}

\* ---- C29 (as claimed; refuted by both single-account close paths): no
\* close confirms its transaction against a blockhash and height that were
\* fetched after the transaction was signed; every close that has settled
\* what it confirms against took the values of the transaction itself.
C29_ConfirmsAgainstOwnBlockhash ==
  \A k \in 1..Len(closes) :
    closes[k].against # Null => closes[k].against = "own"

\* ---- C30: in the version that refreshes blockhashes, a run fetches the
\* latest blockhash at most once; the fetch is requested by the step in
\* which the last build request returns, its answer is followed at once by
\* the bulk-sign call, and all transactions handed to that call, one per
\* batch, carry the blockhash and the height ceiling of one answer.
BlockhashCalls == {p \in 1..Len(log) : log[p] = Ev("blockhash", 0, "call")}

CarryAll(txs, latestBlockhash) ==
  \A k \in 1..Len(txs) :
    /\ txs[k].recentBlockhash = latestBlockhash.blockhash
    /\ txs[k].lastValidBlockHeight = latestBlockhash.lastValidBlockHeight

C30_OneFreshBlockhashBeforeSign ==
  RefreshesBlockhash(variant) =>
    /\ Cardinality(BlockhashCalls) <= 1
    /\ \A p \in BlockhashCalls :
         /\ p > 1 /\ log[p - 1] = Ev("build", Len(chunkedKeys), "ok")
         /\ \A q \in (p + 1)..Len(log) : log[q].ev # "build"
    /\ \A p \in 1..Len(log) :
         log[p] = Ev("sign", 0, "call") =>
           /\ p > 2 /\ log[p - 1] = Ev("blockhash", 0, "ok")
           /\ log[p - 2] = Ev("blockhash", 0, "call")
    /\ \A n \in 1..Len(signArgs) :
         /\ Len(signArgs[n]) = Len(chunkedKeys)
         /\ \E latestBlockhash \in LatestBlockhashes :
              CarryAll(signArgs[n], latestBlockhash)

C30_Witness ==
  /\ RefreshesBlockhash(variant)
  /\ LogHas(Ev("sign", 0, "call"))
  /\ Len(signArgs) = 1 /\ Len(signArgs[1]) = MaxBatches
  /\ signArgs[1][1].recentBlockhash = "fresher"

\* ---- C31: when the account lookup of a scan fails (the request throws, or
\* its answer carries no accounts list), the scan sets the generic error
\* "Failed to fetch token accounts.", ends without a second lookup request
\* (the lookups pending are one fewer than before and no scan is added),
\* and leaves the displayed account list and the account keys as they were.
LookupFailed(call) ==
  call.issued /\ (call.status = "threw" \/ ~call.returned.def)

C31_LookupFailureReported ==
  [][(ScanLookupResponse /\ LookupFailed(lastCall')) =>
       /\ error' = "Failed to fetch token accounts."
       /\ tokenAccounts' = tokenAccounts
       /\ accountKeys' = accountKeys
       /\ Len(scans') = Len(scans) - 1
       /\ Cardinality(PendingLookups(scans')) =
            Cardinality(PendingLookups(scans)) - 1]_vars

C31_Witness ==
  /\ LookupFailed(lastCall)
  /\ error = "Failed to fetch token accounts."
  /\ tokenAccounts # <<>>
  /\ scans = <<>>

\* ---- C32 (as claimed; refuted by a response without an accounts list):
\* the step in which a lookup fails leaves accountsWithoutBalance as it
\* was, and the cache it leaves is a list, so that the next scanner call
\* can read its length.
C32_FailedLookupKeepsCache ==
  [][(ScannerResponse /\ LookupFailed(lastCall')) =>
       /\ accountsWithoutBalance' = accountsWithoutBalance
       /\ accountsWithoutBalance'.def]_vars

RECURSIVE SumShared(_)
SumShared(reports) ==
  IF reports = <<>> THEN 0
  ELSE Head(reports).sol_shared + SumShared(Tail(reports))

\* the referral reports of the current run, in the order they were made
ReportsOfRun == SelectSeq(referralReports, LAMBDA c : c.run = runs)

\* ---- C33 (as claimed; refuted by the versions that add every truthy
\* solShared): when a run has shown its success message, the shared total
\* in the message is the sum of the amounts of the referral reports made
\* during the run, and the running total equals that sum too.
C33_SharedTotalIsReported ==
  LogHas(Ev("success", 0, "shown")) =>
    /\ statusMessage.shown
    /\ statusMessage.shared = SumShared(ReportsOfRun)
    /\ totalSolShared = SumShared(ReportsOfRun)

\* the closeAccountWIthBalance invocations between their start and their end
RunningAdvCloses ==
  {k \in 1..Len(closes) :
     closes[k].path = "AdvancedMode" /\ closes[k].outcome = "pending"}

\* ---- C34 (as claimed; refuted by "Force Close Selected" with two selected
\* accounts): in AdvancedMode, loading is true in every state in which at
\* least one closeAccountWIthBalance has started and not yet ended.
C34_LoadingWhileClosing ==
  RunningAdvCloses # {} => loading

====
